---------------------------- MODULE Spec2Model ----------------------------
(***************************************************************************)
(* FinMate (src/fintech.tsx): the state of the FinMatePrototype component  *)
(* and the algorithms it calls.                                            *)
(*                                                                         *)
(* Numbers.  The source computes in IEEE doubles.  Amounts entered in the  *)
(* forms are whole numbers (parseInt); the only fractions come from        *)
(*   - share = amount / splitWith.length in suggestSettlements, and        *)
(*   - the factors 0.4 / 0.6 of ewma.                                      *)
(* Both are modelled as exact rationals: settlement balances are integers  *)
(* counted in 1/Scale of a currency unit, the burn rate is a numerator     *)
(* over a power of 5.  Floating-point drift is not modelled.               *)
(*                                                                         *)
(* Dates.  A date string "YYYY-MM-DD" is the day number of that date in    *)
(* the current month (1 = the first, 0 = the last day of the month         *)
(* before).  Instants are counted in half hours on the UTC time line,      *)
(* from UTC midnight of day 1 of the current month.                        *)
(*                                                                         *)
(* Identifiers (uid()) and free text (note, name, description) decide      *)
(* nothing in the code and are left out of the records, except the uid     *)
(* keys of jars.                                                           *)
(***************************************************************************)
EXTENDS Integers, Sequences, FiniteSets, TLC

VARIABLES
    tz,             \* the browser's UTC offset, in half hours (environment)
    clock,          \* local wall clock: half hours since local midnight of day 1
    monthAllowance, \* useState(8000)
    sideIncome,     \* useState(0)
    mode,           \* useState("Normal")
    txns,           \* the ledger, newest first
    jars,           \* the jars, in display order
    groups,         \* the squads
    events,         \* the calendar events
    shown           \* per group, the settlement lines the last render displayed

vars == <<tz, clock, monthAllowance, sideIncome, mode, txns, jars, groups, events, shown>>

---------------------------------------------------------------------------
(* Bounds of the model *)

\* group expenses added in one run, over all groups
MaxGroupTxns == 2
\* squads in one run (the initial one included)
MaxGroups == 2
\* ledger entries added in one run (beyond the three initial ones)
MaxLedgerAdds == 1
\* the latest local day of the month the session runs on
MaxDay == 2
\* the +50 button of a jar is not pressed beyond this saved amount
MaxSaved == 1000
\* the Reserve buttons of an event are not pressed beyond this reserved total
MaxReserved == 300
\* jars in one run (the three initial ones included)
MaxJars == 4
\* calendar events in one run (the initial one included)
MaxEvents == 2

---------------------------------------------------------------------------
(* Generic helpers *)

RECURSIVE SumSeq(_)
SumSeq(s) == IF s = <<>> THEN 0 ELSE Head(s) + SumSeq(Tail(s))

Max2(a, b) == IF a >= b THEN a ELSE b

Min2(a, b) == IF a <= b THEN a ELSE b

Abs(x) == IF x < 0 THEN -x ELSE x

\* Math.ceil(a / b) for b > 0
CeilDiv(a, b) == -((-a) \div b)

Range(s) == {s[i] : i \in DOMAIN s}

\* the number of places of s that hold x
Count(s, x) == Cardinality({i \in DOMAIN s : s[i] = x})

IndexOf(s, x) == CHOOSE i \in DOMAIN s : s[i] = x

\* Array.from({ length: n }, () => 0)
RECURSIVE Zeros(_)
Zeros(n) == IF n <= 0 THEN <<>> ELSE Append(Zeros(n - 1), 0)

\* Object.fromEntries(keys.map((k) => [k, 0]))
RECURSIVE ZeroEntries(_)
ZeroEntries(keys) ==
    IF keys = <<>> THEN [k \in {} |-> 0]
    ELSE (Head(keys) :> 0) @@ ZeroEntries(Tail(keys))

RECURSIVE Gcd(_, _)
Gcd(a, b) == IF b = 0 THEN a ELSE Gcd(b, a % b)

RECURSIVE LcmUpTo(_)
LcmUpTo(n) == IF n <= 1 THEN 1 ELSE (LcmUpTo(n - 1) * n) \div Gcd(LcmUpTo(n - 1), n)

---------------------------------------------------------------------------
(* Squad Finance: suggestSettlements *)

\* a name typed into "Split With" that is no member of any squad
Stranger == "Zed"

\* the member lists NewSquadForm is given in the model ("" parses to no member)
MemberLists == { <<>>, <<"P", "Q", "R", "S">> }

\* the amounts typed into the group expense form (amount > 0)
GroupAmounts == {1, 3, 4}

\* the sub-list of members at the places in S, in member order
SubList(members, S) == SelectSeq(members, LAMBDA m : \E i \in S : members[i] = m)

\* "Split With" is free text, split at commas: every sub-list of the members,
\* the empty list, a list naming a non-member, a list naming a member twice
SplitChoices(members) ==
    { SubList(members, S) : S \in SUBSET (DOMAIN members) }
      \cup { <<Stranger>> }
      \cup (IF members = <<>> THEN {}
            ELSE { <<members[1], Stranger>>, <<members[1], members[1]>> })

\* the members of the squad the component starts with (line 171)
Room108 == <<"You", "Aarav", "Sara">>

\* the longest split list of the model
MaxSplitLen ==
    LET lens == {Len(l) : l \in MemberLists \cup {Room108}}
    IN  Max2(2, CHOOSE n \in lens : \A k \in lens : k <= n)

\* balances are counted in 1/Scale of a currency unit: every share is whole
Scale == LcmUpTo(MaxSplitLen)

\* lines 119-123: one expense applied to net.  net holds the members' entries;
\* an entry the code creates for a non-member is NaN, takes part in no
\* comparison of lines 127-128 and is left out
NetAfter(net, t) ==
    LET share == IF Len(t.splitWith) = 0 THEN 0
                 ELSE (t.amount * Scale) \div Len(t.splitWith)
    IN  [m \in DOMAIN net |->
            net[m] - Count(t.splitWith, m) * share
                   + (IF t.paidBy = m THEN t.amount * Scale ELSE 0)]

RECURSIVE NetFold(_, _)
NetFold(net, ts) == IF ts = <<>> THEN net ELSE NetFold(NetAfter(net, Head(ts)), Tail(ts))

\* lines 118-123: net per member, in 1/Scale units
Net(group) == NetFold(ZeroEntries(group.members), group.txns)

\* lines 126-127: the debtors in member order
Debtors(group) ==
    LET net == Net(group)
        ms  == SelectSeq(group.members, LAMBDA m : 2 * net[m] < -Scale)
    IN  [i \in DOMAIN ms |-> [m |-> ms[i], amt |-> -net[ms[i]]]]

\* lines 126-128: the creditors in member order
Creditors(group) ==
    LET net == Net(group)
        ms  == SelectSeq(group.members,
                         LAMBDA m : ~(2 * net[m] < -Scale) /\ 2 * net[m] > Scale)
    IN  [i \in DOMAIN ms |-> [m |-> ms[i], amt |-> net[ms[i]]]]

BeforeAscending(x, y) == x.amt < y.amt

\* lines 130-131: the comparator (a, b) => b.amt - a.amt puts x before y
\* when x.amt > y.amt
Before(x, y) == x.amt > y.amt

\* Array.prototype.sort is stable: e goes behind every entry it is not before
RECURSIVE InsertSorted(_, _)
InsertSorted(e, s) ==
    IF s = <<>> THEN <<e>>
    ELSE IF Before(e, Head(s)) THEN <<e>> \o s
    ELSE <<Head(s)>> \o InsertSorted(e, Tail(s))

RECURSIVE SortDesc(_)
SortDesc(s) ==
    IF s = <<>> THEN <<>>
    ELSE InsertSorted(s[Len(s)], SortDesc(SubSeq(s, 1, Len(s) - 1)))

RoundDownScaled(x) == x \div Scale

\* Math.round of x / Scale for x >= 0
RoundScaled(x) == (2 * x + Scale) \div (2 * Scale)

TakeHalf(a, b) == Min2(a, b) \div 2

\* line 136
Take(a, b) == Min2(a, b)

\* lines 135-142: the loop from pointers i, j (1-based).  Each iteration is
\* recorded with the transfer it pushes, the two lists and the pointers as it
\* found them, and the pointers as it leaves them
RECURSIVE Match(_, _, _, _)
Match(ds, cs, i, j) ==
    IF ~(i <= Len(ds) /\ j <= Len(cs)) THEN <<>>
    ELSE LET take == Take(ds[i].amt, cs[j].amt)
             ds2  == [ds EXCEPT ![i].amt = @ - take]
             cs2  == [cs EXCEPT ![j].amt = @ - take]
             i2   == IF ds2[i].amt < Scale THEN i + 1 ELSE i
             j2   == IF cs2[j].amt < Scale THEN j + 1 ELSE j
         IN  << [from |-> ds[i].m, to |-> cs[j].m, amt |-> RoundScaled(take),
                 ds |-> ds, cs |-> cs, i |-> i, j |-> j, i2 |-> i2, j2 |-> j2] >>
             \o Match(ds2, cs2, i2, j2)

\* lines 130-142: the iterations of one call
Iterations(group) == Match(SortDesc(Debtors(group)), SortDesc(Creditors(group)), 1, 1)

\* lines 116-144: the transfers returned
suggestSettlements(group) ==
    LET its == Iterations(group)
    IN  [k \in DOMAIN its |-> [from |-> its[k].from, to |-> its[k].to, amt |-> its[k].amt]]

SettleCallDraining(group) ==
    [res |-> suggestSettlements(group), group |-> [group EXCEPT !.txns = <<>>]]

\* one call of suggestSettlements: what it returns and the group object as the
\* call leaves it (net, debtors, creditors and res are fresh objects of the
\* call; nothing is written through group)
SettleCall(group) == [res |-> suggestSettlements(group), group |-> group]

\* lines 449-455: the render of one squad calls suggestSettlements twice
RenderSettlements(group) ==
    LET c1 == SettleCall(group)
        c2 == SettleCall(c1.group)
    IN  IF Len(c1.res) = 0 THEN <<>> ELSE c2.res

\* every state change re-renders FinMatePrototype, and with it every squad
RenderAll(gs) == [i \in DOMAIN gs |-> RenderSettlements(gs[i])]

---------------------------------------------------------------------------
(* Clock and dates *)

\* line 81: 1000 * 3600 * 24 ms, counted in half hours
HalfHoursPerDay == 48

\* UTC-5:00, UTC, UTC+5:30
TzChoices == {-10, 0, 11}

\* 02:00 and 22:00 local time
TodChoices == {4, 44}

\* new Date(): now, on the UTC time line
Now == clock - tz

\* lines 76-79: new Date(y, m, 1) is LOCAL midnight of day 1
monthStart == -tz

\* new Date("YYYY-MM-DD") is UTC midnight of that date (ECMAScript Date.parse)
DateOf(day) == (day - 1) * HalfHoursPerDay

\* line 81
daysBetween(a, b) == CeilDiv(b - a, HalfHoursPerDay)

\* line 74: toISOString() is the UTC date
todayISO == (Now \div HalfHoursPerDay) + 1

\* the local calendar day of the month
LocalToday == (clock \div HalfHoursPerDay) + 1

\* the dates picked in the date inputs: last month's last day .. tomorrow
DateChoices == 0 .. (MaxDay + 1)

---------------------------------------------------------------------------
(* Ledger aggregates, budgets, forecast, nudges *)

CATEGORIES == <<"Mess", "Outings", "Rent", "Utilities", "Travel", "Groceries", "Misc">>

CHANNELS == <<"UPI", "Cash", "Wallet">>

\* lines 180-188
baseBudgets ==
    [c \in Range(CATEGORIES) |->
        CASE c = "Mess" -> 2500 [] c = "Outings" -> 1500 [] c = "Rent" -> 4000
          [] c = "Utilities" -> 600 [] c = "Travel" -> 600 [] c = "Groceries" -> 800
          [] c = "Misc" -> 500]

modeFactorFlat(m) == IF m = "Tight" THEN 75 ELSE 100

\* line 189, in hundredths
modeFactor(m) == IF m = "Tight" THEN 75 ELSE IF m = "Chill" THEN 115 ELSE 100

\* lines 190-194: Math.round(b[k] * modeFactor)
budgets == [c \in Range(CATEGORIES) |-> (2 * baseBudgets[c] * modeFactor(mode) + 100) \div 200]

IsSpendOrTopUp(t) == t.amount # 0

\* line 198: the entries that count as spend
IsSpend(t) == t.amount > 0

\* lines 197-199
RECURSIVE CategoryFold(_, _)
CategoryFold(acc, ts) ==
    IF ts = <<>> THEN acc
    ELSE LET t == Head(ts)
         IN  CategoryFold(IF IsSpend(t) THEN [acc EXCEPT ![t.category] = @ + t.amount] ELSE acc,
                          Tail(ts))

\* lines 196-200
spendByCategory == CategoryFold(ZeroEntries(CATEGORIES), txns)

\* line 217
spendSoFar ==
    LET pos == SelectSeq(txns, LAMBDA t : t.amount > 0)
    IN  SumSeq([i \in DOMAIN pos |-> pos[i].amount])

\* lines 207-213
RECURSIVE DailyFold(_, _)
DailyFold(arr, ts) ==
    IF ts = <<>> THEN arr
    ELSE LET t     == Head(ts)
             d     == DateOf(t.date)
             start == monthStart
             idx   == daysBetween(start, d) - 1
         IN  DailyFold(IF d >= start /\ t.amount > 0 /\ idx >= 0 /\ idx < Len(arr)
                         THEN [arr EXCEPT ![idx + 1] = @ + t.amount]
                         ELSE arr,
                       Tail(ts))

\* lines 203-215
dailySeries ==
    LET days == daysBetween(monthStart, Now)
    IN  DailyFold(Zeros(Max2(1, days)), txns)

\* lines 86-91 with alpha = 0.4: the numerator of s over 5^(Len(values) - 1)
RECURSIVE EwmaNum(_)
EwmaNum(values) ==
    IF Len(values) = 0 THEN 0
    ELSE IF Len(values) = 1 THEN values[1]
    ELSE LET n == Len(values)
         IN  2 * values[n] * (5 ^ (n - 2)) + 3 * EwmaNum(SubSeq(values, 1, n - 1))

ewma(values) == [num |-> EwmaNum(values), den |-> 5 ^ Max2(0, Len(values) - 1)]

DaysLeftUnclamped(balance, burn) == (balance * burn.den) \div burn.num

\* line 107: Math.max(0, Math.floor(balance / burn))
DaysLeftOf(balance, burn) == Max2(0, (balance * burn.den) \div burn.num)

\* lines 93-111.  daysLeft = Infinity is unbounded = TRUE; runoutDate is <<>>
\* for null, else <<the local day number of the date>> (counted on from day 1
\* of the current month)
predictRunOutDate(allowance, side, spend, series) ==
    LET balance == allowance + side - spend
        burn    == ewma(SelectSeq(series, LAMBDA v : v >= 0))
    IN  IF burn.num <= 0
        THEN [balance |-> balance, burn |-> [num |-> 0, den |-> 1], unbounded |-> TRUE,
              daysLeft |-> 0, runoutDate |-> <<>>]
        ELSE [balance |-> balance, burn |-> burn, unbounded |-> FALSE,
              daysLeft |-> DaysLeftOf(balance, burn),
              runoutDate |-> <<LocalToday + DaysLeftOf(balance, burn)>>]

\* lines 219-224
forecast == predictRunOutDate(monthAllowance, sideIncome, spendSoFar, dailySeries)

MsgOutings == "Outings zyada ho gaya"

MsgRunOut == "paise khatam in <7 days"

MsgEmergency == "Emergency jar thoda low hai"

MsgAllSet == "Aaj sab set!"

\* line 234: jars.find((j) => j.key === "emergency"), <<>> for undefined
FindJar(js, key) ==
    LET hits == SelectSeq(js, LAMBDA j : j.key = key)
    IN  IF hits = <<>> THEN <<>> ELSE <<Head(hits)>>

TipsFirstMatchOnly(spend, bud, fc, js) ==
    IF spend["Outings"] > bud["Outings"] THEN <<MsgOutings>>
    ELSE IF ~fc.unbounded /\ fc.daysLeft < 7 THEN <<MsgRunOut>>
    ELSE IF FindJar(js, "emergency") # <<>> /\ FindJar(js, "emergency")[1].saved < 1000
         THEN <<MsgEmergency>>
    ELSE <<MsgAllSet>>

\* lines 227-238
TipsOf(spend, bud, fc, js) ==
    LET em    == FindJar(js, "emergency")
        m1    == IF spend["Outings"] > bud["Outings"] THEN <<MsgOutings>> ELSE <<>>
        m2    == IF ~fc.unbounded /\ fc.daysLeft < 7 THEN <<MsgRunOut>> ELSE <<>>
        m3    == IF em # <<>> /\ em[1].saved < 1000 THEN <<MsgEmergency>> ELSE <<>>
        msgs  == m1 \o m2 \o m3
    IN  IF Len(msgs) = 0 THEN <<MsgAllSet>> ELSE msgs

tips == TipsOf(spendByCategory, budgets, forecast, jars)

---------------------------------------------------------------------------
(* The component's state and its handlers *)

\* lines 156-160: the three entries the ledger starts with, dated todayISO()
InitialTxns ==
    << [date |-> todayISO, amount |-> 120, category |-> "Mess", channel |-> "UPI"],
       [date |-> todayISO, amount |-> 300, category |-> "Outings", channel |-> "Wallet"],
       [date |-> todayISO, amount |-> 4000, category |-> "Rent", channel |-> "UPI"] >>

\* lines 163-167
InitialJars ==
    << [key |-> "chai", target |-> 1000, saved |-> 50],
       [key |-> "emergency", target |-> 3000, saved |-> 200],
       [key |-> "fest", target |-> 1500, saved |-> 0] >>

\* lines 151-177: the state after construction, in the environment (tzs, clocks)
InitIn(tzs, clocks) ==
    /\ tz \in tzs
    /\ clock \in clocks
    /\ monthAllowance = 8000
    /\ sideIncome = 0
    /\ mode = "Normal"
    /\ txns = InitialTxns
    /\ jars = InitialJars
    /\ groups = << [members |-> Room108, txns |-> <<>>] >>
    /\ events = << [id |-> 1, expectedSpend |-> 800, reserved |-> 0] >>
    /\ shown = RenderAll(groups)

ClockChoices == {(d - 1) * HalfHoursPerDay + h : d \in 1 .. MaxDay, h \in TodChoices}

Init == InitIn(TzChoices, ClockChoices)

MicroSavingsMess == {"Outings", "Misc", "Travel", "Mess"}

\* line 245: the discretionary categories
MicroSavings == {"Outings", "Misc", "Travel"}

\* line 246
ChaiDeposit(js) == [i \in DOMAIN js |-> IF js[i].key = "chai" THEN [js[i] EXCEPT !.saved = @ + 5] ELSE js[i]]

\* lines 241-248
addTxn(partial) ==
    /\ txns' = <<partial>> \o txns
    /\ jars' = IF partial.category \in MicroSavings THEN ChaiDeposit(jars) ELSE jars

\* lines 527-571, line 567: the Add button of AddTxnForm
SubmitTxn(amount, date, category, channel) ==
    /\ Len(txns) < Len(InitialTxns) + MaxLedgerAdds
    /\ amount > 0
    /\ addTxn([date |-> date, amount |-> amount, category |-> category, channel |-> channel])
    /\ shown' = RenderAll(groups)
    /\ UNCHANGED <<tz, clock, monthAllowance, sideIncome, mode, groups, events>>

\* lines 250-252 alone: the entry is added, sideIncome stays as it is
topUpAsRefund(amount) ==
    /\ addTxn([date |-> todayISO, amount |-> -amount, category |-> "Misc", channel |-> "UPI"])
    /\ sideIncome' = sideIncome

\* lines 250-254
topUp(amount) ==
    /\ addTxn([date |-> todayISO, amount |-> -amount, category |-> "Misc", channel |-> "UPI"])
    /\ sideIncome' = sideIncome + amount

\* lines 589-603, line 599: the Add button of TopUpForm
SubmitTopUp(amt) ==
    /\ Len(txns) < Len(InitialTxns) + MaxLedgerAdds
    /\ amt > 0
    /\ topUp(amt)
    /\ shown' = RenderAll(groups)
    /\ UNCHANGED <<tz, clock, monthAllowance, mode, groups, events>>

\* line 412: js.map(x => x.key === j.key ? {...x, saved: x.saved + 50} : x)
JarsAfterPlus(js, key) ==
    [i \in DOMAIN js |-> IF js[i].key = key THEN [js[i] EXCEPT !.saved = @ + 50] ELSE js[i]]

\* line 412: the + 50 button of the jar with this key
JarPlus(key) ==
    /\ \E i \in DOMAIN jars : jars[i].key = key /\ jars[i].saved + 50 <= MaxSaved
    /\ jars' = JarsAfterPlus(jars, key)
    /\ shown' = RenderAll(groups)
    /\ UNCHANGED <<tz, clock, monthAllowance, sideIncome, mode, txns, groups, events>>

SavedAfterMinusUnfloored(saved) == saved - 50

\* line 413: Math.max(0, x.saved - 50)
SavedAfterMinus(saved) == Max2(0, saved - 50)

\* line 413: js.map(x => x.key === j.key ? {...x, saved: Math.max(0, x.saved - 50)} : x)
JarsAfterMinus(js, key) ==
    [i \in DOMAIN js |->
        IF js[i].key = key THEN [js[i] EXCEPT !.saved = SavedAfterMinus(@)] ELSE js[i]]

\* line 413: the - 50 button of the jar with this key
JarMinus(key) ==
    /\ \E i \in DOMAIN jars : jars[i].key = key
    /\ jars' = JarsAfterMinus(jars, key)
    /\ shown' = RenderAll(groups)
    /\ UNCHANGED <<tz, clock, monthAllowance, sideIncome, mode, txns, groups, events>>

\* line 73: the keys uid() hands out, one per jar ever created
UidPool == <<"u1", "u2", "u3", "u4", "u5", "u6", "u7", "u8">>

\* lines 573-587 and line 363: the Create button of NewJarForm (the name is
\* not modelled; the form requires one)
CreateJar(target) ==
    /\ Len(jars) < MaxJars
    /\ target > 0
    /\ jars' = Append(jars, [key |-> UidPool[Len(jars) + 1], target |-> target, saved |-> 0])
    /\ shown' = RenderAll(groups)
    /\ UNCHANGED <<tz, clock, monthAllowance, sideIncome, mode, txns, groups, events>>

\* line 278: the mode select
SetMode(m) ==
    /\ mode' = m
    /\ shown' = RenderAll(groups)
    /\ UNCHANGED <<tz, clock, monthAllowance, sideIncome, txns, jars, groups, events>>

\* lines 257-261: gid is the place of the group (its uid is unique)
addGroupTxn(gid, t) ==
    groups' = [i \in DOMAIN groups |->
                 IF i = gid THEN [groups[i] EXCEPT !.txns = <<t>> \o @] ELSE groups[i]]

GroupTxnCount == SumSeq([i \in DOMAIN groups |-> Len(groups[i].txns)])

\* line 609: the payers the form can hold: members[0] || "You", then the select
PayerChoices(members) == IF members = <<>> THEN {"You"} ELSE Range(members)

\* lines 605-643, line 639 and line 434: the Add button of AddGroupTxnForm
SubmitGroupTxn(gid, amount, paidBy, splitWith) ==
    /\ GroupTxnCount < MaxGroupTxns
    /\ gid \in DOMAIN groups
    /\ amount > 0
    /\ paidBy \in PayerChoices(groups[gid].members)
    /\ splitWith \in SplitChoices(groups[gid].members)
    /\ addGroupTxn(gid, [amount |-> amount, paidBy |-> paidBy, splitWith |-> splitWith])
    /\ shown' = RenderAll(groups')
    /\ UNCHANGED <<tz, clock, monthAllowance, sideIncome, mode, txns, jars, events>>

\* lines 645-660 and line 466: the Create button of NewSquadForm
CreateSquad(members) ==
    /\ Len(groups) < MaxGroups
    /\ groups' = Append(groups, [members |-> members, txns |-> <<>>])
    /\ shown' = RenderAll(groups')
    /\ UNCHANGED <<tz, clock, monthAllowance, sideIncome, mode, txns, jars, events>>

\* line 265 alone: the event's total rises, the jars stay as they are
reserveEventOnly(eid, amount) ==
    /\ events' = [i \in DOMAIN events |->
                    IF events[i].id = eid THEN [events[i] EXCEPT !.reserved = @ + amount]
                    ELSE events[i]]
    /\ jars' = jars

\* lines 264-267
reserveForEvent(eid, amount) ==
    /\ events' = [i \in DOMAIN events |->
                    IF events[i].id = eid THEN [events[i] EXCEPT !.reserved = @ + amount]
                    ELSE events[i]]
    /\ jars' = [i \in DOMAIN jars |->
                  IF jars[i].key = "fest" THEN [jars[i] EXCEPT !.saved = @ + amount]
                  ELSE jars[i]]

\* lines 485-486: the Reserve buttons of the event with this id
Reserve(eid, amount) ==
    /\ \E i \in DOMAIN events : events[i].id = eid /\ events[i].reserved + amount <= MaxReserved
    /\ reserveForEvent(eid, amount)
    /\ shown' = RenderAll(groups)
    /\ UNCHANGED <<tz, clock, monthAllowance, sideIncome, mode, txns, groups>>

\* lines 662-678 and line 495: the Add button of NewEventForm; the event's
\* uid() is the next unused number
CreateEvent(expectedSpend) ==
    /\ Len(events) < MaxEvents
    /\ expectedSpend > 0
    /\ events' = << [id |-> Len(events) + 1, expectedSpend |-> expectedSpend, reserved |-> 0] >>
                    \o events
    /\ shown' = RenderAll(groups)
    /\ UNCHANGED <<tz, clock, monthAllowance, sideIncome, mode, txns, jars, groups>>

---------------------------------------------------------------------------
(* Specifications *)

\* the amounts and channels entered in AddTxnForm
TxnInputs == { <<120, "UPI">>, <<5000, "Cash">>, <<120, "Wallet">> }

\* the amounts typed into TopUpForm (1000 is the form's default)
TopUpAmounts == {1000, 50000}

Modes == {"Tight", "Normal", "Chill"}

JarKeys == {jars[i].key : i \in DOMAIN jars}

SquadStep ==
    \/ /\ GroupTxnCount < MaxGroupTxns
       /\ \E gid \in DOMAIN groups, a \in GroupAmounts :
         \E p \in PayerChoices(groups[gid].members), sw \in SplitChoices(groups[gid].members) :
            SubmitGroupTxn(gid, a, p, sw)
    \/ \E ms \in MemberLists : CreateSquad(ms)

LedgerStep ==
    \/ \E in \in TxnInputs, d \in DateChoices, c \in Range(CATEGORIES) :
            SubmitTxn(in[1], d, c, in[2])
    \/ \E a \in TopUpAmounts : SubmitTopUp(a)

JarStep == \E k \in JarKeys : JarPlus(k) \/ JarMinus(k)

ModeStep == \E m \in Modes : SetMode(m)

\* the amounts of the two Reserve buttons
ReserveAmounts == {100, 200}

\* the expected spends typed into NewEventForm (500 is the form's default)
EventSpends == {500}

\* the targets typed into NewJarForm
JarTargets == {100}

EventIds == {events[i].id : i \in DOMAIN events}

EventStep ==
    \/ \E e \in EventIds, a \in ReserveAmounts : Reserve(e, a)
    \/ \E x \in EventSpends : CreateEvent(x)

NewJarStep == \E t \in JarTargets : CreateJar(t)

\* every handler of the component that the model holds
Next == SquadStep \/ LedgerStep \/ JarStep \/ ModeStep \/ EventStep \/ NewJarStep

Spec == Init /\ [][Next]_vars

\* the squads alone, in one environment
SpecSquad == InitIn({11}, {44}) /\ [][SquadStep]_vars

\* the ledger alone, in every environment
SpecLedger == Init /\ [][LedgerStep]_vars

\* the nudges: Outings spends and top-ups dated today, the emergency jar's
\* buttons and the mode select
NudgeStep ==
    \/ SubmitTxn(1300, todayISO, "Outings", "UPI")
    \/ SubmitTopUp(50000)
    \/ JarPlus("emergency")
    \/ JarMinus("emergency")
    \/ \E m \in Modes : SetMode(m)

SpecNudge == Init /\ [][NudgeStep]_vars

\* the jars created in the session
NewJarKeys == {jars[i].key : i \in (Len(InitialJars) + 1) .. Len(jars)}

\* the jars and the events: new jars filled until they pass their target,
\* the - 50 button of the chai jar, the fest jar and the new jars, the
\* Reserve buttons, new events, and one spend or top-up feeding the chai jar
PiggyStep ==
    \/ NewJarStep
    \/ \E k \in NewJarKeys :
          /\ \E i \in DOMAIN jars : jars[i].key = k /\ jars[i].saved <= jars[i].target
          /\ JarPlus(k)
    \/ \E k \in NewJarKeys \cup {"chai", "fest"} : JarMinus(k)
    \/ EventStep
    \/ SubmitTxn(120, todayISO, "Outings", "UPI")
    \/ SubmitTopUp(1000)

SpecPiggy == InitIn({11}, {44}) /\ [][PiggyStep]_vars

---------------------------------------------------------------------------
(* Claims about the settlement engine (checked under SpecSquad) *)

\* the data model of a group expense: amount > 0, the payer a member, the
\* split list a non-empty list of distinct members
ValidTxn(g, t) ==
    /\ t.amount > 0
    /\ t.paidBy \in Range(g.members)
    /\ t.splitWith # <<>>
    /\ Range(t.splitWith) \subseteq Range(g.members)
    /\ \A a, b \in DOMAIN t.splitWith : t.splitWith[a] = t.splitWith[b] => a = b

ValidGroup(g) == \A k \in DOMAIN g.txns : ValidTxn(g, g.txns[k])

\* what m pays and what m receives over the transfers res, in currency units
PaidBy(res, m) == SumSeq([k \in DOMAIN res |-> IF res[k].from = m THEN res[k].amt ELSE 0])

ReceivedBy(res, m) == SumSeq([k \in DOMAIN res |-> IF res[k].to = m THEN res[k].amt ELSE 0])

\* the number of transfers m takes part in
TransfersOf(res, m) == Cardinality({k \in DOMAIN res : res[k].from = m \/ res[k].to = m})

\* m's balance once every transfer of res is applied, in 1/Scale units
BalanceAfter(g, m) ==
    LET res == suggestSettlements(g)
    IN  Net(g)[m] + Scale * PaidBy(res, m) - Scale * ReceivedBy(res, m)

NetSum(g) == SumSeq([i \in DOMAIN g.members |-> Net(g)[g.members[i]]])

\* C1: for every group whose expenses satisfy the data model, applying the
\* suggested transfers leaves every member within 1 unit per transfer the
\* member takes part in of zero; a member in no transfer is within the 0.5
\* that the code counts as settled
C1_SettledWithinTolerance ==
    \A gi \in DOMAIN groups :
        ValidGroup(groups[gi]) =>
            \A m \in Range(groups[gi].members) :
                LET n == TransfersOf(suggestSettlements(groups[gi]), m)
                IN  IF n = 0 THEN 2 * Abs(Net(groups[gi])[m]) <= Scale
                    ELSE Abs(BalanceAfter(groups[gi], m)) <= n * Scale

\* C2: the transfers number at most debtors + creditors - 1, hence at most
\* members - 1, whenever both lists are non-empty (and none otherwise); every
\* iteration of the loop moves at least one pointer forward, none backward
C2_TransferCountBounded ==
    \A gi \in DOMAIN groups :
        LET g   == groups[gi]
            its == Iterations(g)
            nd  == Len(Debtors(g))
            nc  == Len(Creditors(g))
        IN  /\ (nd > 0 /\ nc > 0) =>
                  /\ Len(suggestSettlements(g)) <= nd + nc - 1
                  /\ Len(suggestSettlements(g)) <= Len(g.members) - 1
            /\ (nd = 0 \/ nc = 0) => suggestSettlements(g) = <<>>
            /\ \A k \in DOMAIN its :
                  /\ its[k].i2 >= its[k].i
                  /\ its[k].j2 >= its[k].j
                  /\ its[k].i2 + its[k].j2 >= its[k].i + its[k].j + 1

\* C2, witness: a group with two debtors and two creditors settled in three
\* transfers
C2_Witness ==
    \E gi \in DOMAIN groups :
        /\ Len(Debtors(groups[gi])) = 2
        /\ Len(Creditors(groups[gi])) = 2
        /\ Len(suggestSettlements(groups[gi])) = 3

\* the group holds one expense, paid by a member and split across all members,
\* of an amount each member's share of which is whole
EqualSplitScenario(g) ==
    /\ Len(g.members) >= 1
    /\ Len(g.txns) = 1
    /\ g.txns[1].paidBy \in Range(g.members)
    /\ g.txns[1].splitWith = g.members
    /\ g.txns[1].amount % Len(g.members) = 0

\* one transfer of amount / n from each other member to the payer, in member
\* order
EqualSplitResult(g) ==
    LET others == SelectSeq(g.members, LAMBDA m : m # g.txns[1].paidBy)
    IN  [k \in DOMAIN others |->
            [from |-> others[k], to |-> g.txns[1].paidBy,
             amt |-> g.txns[1].amount \div Len(g.members)]]

\* a comes before b in a list sorted once by what each owes (or is owed)
\* before any transfer, descending, equal amounts in member order
InitiallyBefore(g, a, b) ==
    \/ Abs(Net(g)[a]) > Abs(Net(g)[b])
    \/ /\ Abs(Net(g)[a]) = Abs(Net(g)[b])
       /\ IndexOf(g.members, a) < IndexOf(g.members, b)

C4_NetSumsToZero == \A gi \in DOMAIN groups : NetSum(groups[gi]) = 0

---------------------------------------------------------------------------
(* Claims about the ledger (checked under SpecLedger) *)

\* the sum of the positive amounts of the ledger
LedgerSpend ==
    SumSeq([i \in DOMAIN txns |-> IF txns[i].amount > 0 THEN txns[i].amount ELSE 0])

\* the sum of the positive amounts of the ledger entries dated on day k
SpendDatedOn(k) ==
    SumSeq([i \in DOMAIN txns |->
              IF txns[i].amount > 0 /\ txns[i].date = k THEN txns[i].amount ELSE 0])

C7_DailySeriesPerCalendarDay ==
    /\ Len(dailySeries) = LocalToday
    /\ \A k \in 1 .. LocalToday : dailySeries[k] = SpendDatedOn(k)
    /\ LET f == predictRunOutDate(8000, 0, 120, <<120>>)
       IN  f.balance = 7880 /\ f.burn = [num |-> 120, den |-> 1] /\ f.daysLeft = 65

\* C8: balance = allowance + sideIncome - spendSoFar; with no burn daysLeft is
\* unbounded and there is no run-out date; else daysLeft is the floor of
\* max(0, balance) / burn, never negative, 0 when balance <= 0, and the
\* run-out date is today + daysLeft
C8_ForecastFormula ==
    LET f    == forecast
        burn == ewma(dailySeries)
        bal  == monthAllowance + sideIncome - LedgerSpend
        maxb == IF bal > 0 THEN bal ELSE 0
    IN  /\ f.balance = bal
        /\ burn.num <= 0 => f.unbounded /\ f.runoutDate = <<>>
        /\ burn.num > 0 =>
              /\ ~f.unbounded
              /\ f.burn = burn
              /\ f.daysLeft >= 0
              /\ f.daysLeft * burn.num <= maxb * burn.den
              /\ maxb * burn.den < (f.daysLeft + 1) * burn.num
              /\ bal <= 0 => f.daysLeft = 0
              /\ f.runoutDate = <<LocalToday + f.daysLeft>>

\* C8, witness: money is being burnt and the balance is below 0
C8_Witness ==
    /\ ~forecast.unbounded
    /\ forecast.balance < 0
    /\ forecast.daysLeft = 0
    /\ forecast.runoutDate = <<LocalToday>>

\* the place of a message in the fixed order of the rules
MsgRank(msg) ==
    CASE msg = MsgOutings -> 1 [] msg = MsgRunOut -> 2 [] msg = MsgEmergency -> 3
      [] msg = MsgAllSet -> 4 [] OTHER -> 0

OutingsOverBudget == spendByCategory["Outings"] > budgets["Outings"]

RunOutNear == ~forecast.unbounded /\ forecast.daysLeft < 7

EmergencyLow == \E i \in DOMAIN jars : jars[i].key = "emergency" /\ jars[i].saved < 1000

\* C9: the nudges are never empty; each rule's message is in the list exactly
\* when the rule matches, in the order of the rules; the default message is in
\* the list exactly when no rule matches, and is then the whole list
C9_NudgesMatchRules ==
    /\ Len(tips) >= 1
    /\ \A a, b \in DOMAIN tips : a < b => MsgRank(tips[a]) < MsgRank(tips[b])
    /\ \A a \in DOMAIN tips : MsgRank(tips[a]) >= 1
    /\ (\E a \in DOMAIN tips : tips[a] = MsgOutings) <=> OutingsOverBudget
    /\ (\E a \in DOMAIN tips : tips[a] = MsgRunOut) <=> RunOutNear
    /\ (\E a \in DOMAIN tips : tips[a] = MsgEmergency) <=> EmergencyLow
    /\ (\E a \in DOMAIN tips : tips[a] = MsgAllSet)
          <=> ~(OutingsOverBudget \/ RunOutNear \/ EmergencyLow)
    /\ ~(OutingsOverBudget \/ RunOutNear \/ EmergencyLow) => tips = <<MsgAllSet>>

\* C9, witness: all three rules match at once
C9_Witness ==
    /\ OutingsOverBudget /\ RunOutNear /\ EmergencyLow
    /\ tips = <<MsgOutings, MsgRunOut, MsgEmergency>>

\* C10: a ledger insert of category Outings, Misc or Travel adds exactly 5 to
\* the jar keyed chai and changes no other jar; an insert of another category
\* changes no jar; the insert puts its entry first in the ledger
C10_InsertFeedsChai ==
    [][Len(txns') = Len(txns) + 1 =>
          /\ Tail(txns') = txns
          /\ Len(jars') = Len(jars)
          /\ \A i \in DOMAIN jars :
                /\ jars'[i].key = jars[i].key
                /\ jars'[i].target = jars[i].target
                /\ jars'[i].saved = jars[i].saved
                     + (IF jars[i].key = "chai" /\ txns'[1].category \in {"Outings", "Misc", "Travel"}
                        THEN 5 ELSE 0)]_vars

\* C10, witness: a top-up (a Misc insert) has fed the chai jar
C10_Witness ==
    /\ Len(txns) = Len(InitialTxns) + 1
    /\ txns[1].amount < 0
    /\ txns[1].category = "Misc"
    /\ \E i \in DOMAIN jars : jars[i].key = "chai" /\ jars[i].saved = 55
    /\ \E i \in DOMAIN jars : jars[i].key = "emergency" /\ jars[i].saved = 200

---------------------------------------------------------------------------
(* Claims about the events and the jars (checked under SpecPiggy) *)

ReservedTotal(es) == SumSeq([i \in DOMAIN es |-> es[i].reserved])

FestSaved(js) == SumSeq([i \in DOMAIN js |-> IF js[i].key = "fest" THEN js[i].saved ELSE 0])

\* the event with this id keeps its fields but for reserved, which rises by a
ReservedRaised(eid, a) ==
    /\ Len(events') = Len(events)
    /\ \A i \in DOMAIN events :
          /\ events'[i].id = events[i].id
          /\ events'[i].expectedSpend = events[i].expectedSpend
          /\ events'[i].reserved = events[i].reserved + (IF events[i].id = eid THEN a ELSE 0)

\* the fest jar keeps its fields but for saved, which rises by a; every other
\* jar is as it was
FestRaised(a) ==
    /\ Len(jars') = Len(jars)
    /\ \A k \in DOMAIN jars :
          IF jars[k].key = "fest"
          THEN /\ jars'[k].key = "fest"
               /\ jars'[k].target = jars[k].target
               /\ jars'[k].saved = jars[k].saved + a
          ELSE jars'[k] = jars[k]

\* C11: a step that changes the reserved totals is a reserve of 100 or 200 on
\* one event: that event's reserved and the fest jar's saved rise by exactly
\* that amount, every other event and jar is unchanged, the sum of reserved
\* and the fest jar rise by the same amount; and on every step each event is
\* still there with a reserved total no lower than before
C11_ReserveMirrorsFest ==
    [][ /\ \A i \in DOMAIN events :
              \E j \in DOMAIN events' :
                 /\ events'[j].id = events[i].id
                 /\ events'[j].reserved >= events[i].reserved
        /\ ReservedTotal(events') # ReservedTotal(events) =>
              \E e \in EventIds, a \in ReserveAmounts :
                 /\ ReservedRaised(e, a)
                 /\ FestRaised(a)
                 /\ ReservedTotal(events') - ReservedTotal(events) = a
                 /\ FestSaved(jars') - FestSaved(jars) = a
      ]_vars

\* C11, witness: of two events the older one holds reservations, the newer one
\* none, and the fest jar holds what was reserved
C11_Witness ==
    /\ Len(events) = 2
    /\ events[1].reserved = 0
    /\ events[2].reserved = MaxReserved
    /\ FestSaved(jars) = MaxReserved

\* a key that matches no jar
NoKey == "none"

\* no jar has saved below 0, and the + 50 and - 50 maps applied with a key
\* that matches no jar return the jars as they are
JarsNeverNegative ==
    /\ \A i \in DOMAIN jars : jars[i].saved >= 0
    /\ \A i \in DOMAIN jars : jars[i].key # NoKey
    /\ JarsAfterPlus(jars, NoKey) = jars
    /\ JarsAfterMinus(jars, NoKey) = jars

\* a jar whose saved amount went down went down by 50, or to 0 when it held
\* less than 50; a new jar is appended with saved = 0 and the others kept
JarStepsFloored ==
    /\ Len(jars') >= Len(jars)
    /\ \A i \in DOMAIN jars :
          /\ jars'[i].key = jars[i].key
          /\ jars'[i].saved < jars[i].saved =>
                jars'[i].saved = (IF jars[i].saved >= 50 THEN jars[i].saved - 50 ELSE 0)
    /\ Len(jars') > Len(jars) =>
          /\ Len(jars') = Len(jars) + 1
          /\ jars'[Len(jars')].saved = 0
          /\ jars'[Len(jars')].target > 0
          /\ SubSeq(jars', 1, Len(jars)) = jars

\* C12: through createJar, the + 50 and - 50 buttons, addTxn, topUp and
\* reserveForEvent every jar's saved amount stays >= 0, a decrease stops at 0,
\* a new jar starts at 0, and a key that matches no jar changes nothing
C12_SavedNeverNegative == []JarsNeverNegative /\ [][JarStepsFloored]_vars

\* C12, witness: a new jar holds more than its target while the chai jar,
\* fed 5 by a spend, was emptied by a decrease that stopped at 0
C12_Witness ==
    /\ \E i \in DOMAIN jars : jars[i].key \in NewJarKeys /\ jars[i].saved > jars[i].target
    /\ \E i \in DOMAIN jars : jars[i].key = "chai" /\ jars[i].saved = 0
    /\ Len(txns) > Len(InitialTxns)

---------------------------------------------------------------------------
(* Claims about the mode and the top-up (checked under SpecNudge, SpecLedger) *)

\* b is num / den of base rounded to the nearest whole number
IsRounded(b, base, num, den) == 2 * Abs(b * den - base * num) <= den

\* each budget is its base budget times 3/4 (Tight), 1 (Normal) or 23/20
\* (Chill), rounded; in Normal mode the budgets are the base budgets
BudgetsFollowMode ==
    /\ DOMAIN budgets = Range(CATEGORIES)
    /\ \A c \in Range(CATEGORIES) :
          /\ mode = "Tight" => IsRounded(budgets[c], baseBudgets[c], 3, 4)
          /\ mode = "Normal" => budgets[c] = baseBudgets[c]
          /\ mode = "Chill" => IsRounded(budgets[c], baseBudgets[c], 23, 20)

\* a change of mode leaves the ledger, its aggregates, the jars, the events
\* and the forecast as they were
ModeChangeKeepsRest ==
    mode' # mode =>
        /\ txns' = txns
        /\ spendByCategory' = spendByCategory
        /\ spendSoFar' = spendSoFar
        /\ jars' = jars
        /\ events' = events
        /\ forecast' = forecast
        /\ sideIncome' = sideIncome /\ monthAllowance' = monthAllowance

\* C13: in every state each budget is round(base budget x factor of the
\* current mode), whatever modes came before, and a change of mode changes
\* nothing but the budgets
C13_ModeChangesOnlyBudgets == []BudgetsFollowMode /\ [][ModeChangeKeepsRest]_vars

\* C13, witness: Chill mode with a ledger entry added and the emergency jar
\* moved, i.e. reached through steps other than mode changes as well
C13_Witness ==
    /\ mode = "Chill"
    /\ budgets["Outings"] = 1725
    /\ Len(txns) > Len(InitialTxns)
    /\ \E i \in DOMAIN jars : jars[i].key = "emergency" /\ jars[i].saved # 200

\* the step put a top-up entry (a negative amount) at the head of the ledger
TopUpStep == Len(txns') = Len(txns) + 1 /\ txns'[1].amount < 0

---------------------------------------------------------------------------
(* Claims about stored group expenses and transfers (checked under SpecSquad) *)

\* C15: every stored group expense has amount > 0, a payer who is a member of
\* its group, and a split list that is non-empty and names members only
C15_StoredExpensesValid ==
    \A gi \in DOMAIN groups :
        \A k \in DOMAIN groups[gi].txns :
            LET t == groups[gi].txns[k]
            IN  /\ t.amount > 0
                /\ t.paidBy \in Range(groups[gi].members)
                /\ Len(t.splitWith) > 0
                /\ Range(t.splitWith) \subseteq Range(groups[gi].members)

\* C16: every transfer has a whole amount >= 1, goes from a member whose net
\* balance is below -0.5 to a member whose net balance is above 0.5, no
\* member both pays and receives, and no (from, to) pair appears twice
C16_TransfersWellFormed ==
    \A gi \in DOMAIN groups :
        LET g   == groups[gi]
            res == suggestSettlements(g)
        IN  /\ \A k \in DOMAIN res :
                  /\ res[k].amt \in Nat
                  /\ res[k].amt >= 1
                  /\ res[k].from \in Range(g.members)
                  /\ res[k].to \in Range(g.members)
                  /\ 2 * Net(g)[res[k].from] < -Scale
                  /\ 2 * Net(g)[res[k].to] > Scale
                  /\ res[k].from # res[k].to
            /\ \A k, l \in DOMAIN res :
                  /\ res[k].from # res[l].to
                  /\ (res[k].from = res[l].from /\ res[k].to = res[l].to) => k = l

\* C16, witness: a group settled in two transfers or more, one of them of an
\* amount that is the rounding of a fraction, and one from a debtor who owes
\* less than 1 (more than 0.5)
C16_Witness ==
    \E gi \in DOMAIN groups :
        LET its == Iterations(groups[gi])
        IN  /\ Len(its) >= 2
            /\ \E k \in DOMAIN its :
                  Take(its[k].ds[its[k].i].amt, its[k].cs[its[k].j].amt) % Scale # 0
            /\ \E k \in DOMAIN its : its[k].ds[its[k].i].amt < Scale

=============================================================================
